---- MODULE Spec2Model ----
(***************************************************************************)
(* Model of ioctl/hidraw.py: the Hidraw device handle, its six read-only   *)
(* ioctl queries and the decoding of the buffers the kernel fills.         *)
(*                                                                         *)
(* Conventions.                                                            *)
(*  - An octet is a number 0..255; a buffer is a sequence of octets; text  *)
(*    is a sequence of Unicode code points.                                *)
(*  - Native byte order is little-endian (x86, ARM): ctypes reads c_uint   *)
(*    and c_ushort least significant octet first.                          *)
(*  - TLC's integers are 32-bit signed, so a request code is kept as its   *)
(*    two 16-bit halves and the unsigned 32-bit values the kernel hands    *)
(*    out stay below 2^31.                                                 *)
(***************************************************************************)
EXTENDS Integers, Sequences, FiniteSets, TLC

(* ------------------------------ bounds -------------------------------- *)

\* The two buffer capacities of hidraw.py are scaled down so that every
\* buffer content can be enumerated: the model's value array holds
\* 4 * DescriptorWords octets (4096 = 4 * 1024 in the source) and its string
\* buffers hold NameCapacity octets (1024 in the source).
DescriptorWords == 2

NameCapacity == 4

(* ------------------------- program constants -------------------------- *)

\* HidrawReportDescriptor.HID_MAX_DESCRIPTOR_SIZE, scaled
HID_MAX_DESCRIPTOR_SIZE == 4 * DescriptorWords

HIDIOCGRDESCSIZE == 1
HIDIOCGRDESC == 2
HIDIOCGRAWINFO == 3
HIDIOCGRAWNAME == 4
HIDIOCGRAWPHYS == 5

HIDIOCGRAWUNIQ_asPhys == HIDIOCGRAWPHYS

HIDIOCGRAWUNIQ == 8

\* Hidraw.HID_NAME_SIZE, scaled
HID_NAME_SIZE == NameCapacity

\* ord('H'), the type character every request is built with
TypeH == 72

(* ------------------------------ helpers ------------------------------- *)

Min(a, b) == IF a < b THEN a ELSE b

Zeros(n) == [i \in 1..n |-> 0]

\* int.to_bytes(k, 'little')
ToBytesLE(n, k) ==
  [i \in 1..k |-> CASE i = 1 -> n % 256
                    [] i = 2 -> (n \div 256) % 256
                    [] i = 3 -> (n \div 65536) % 256
                    [] OTHER -> (n \div 16777216) % 256]

\* ctypes c_uint / c_ushort read at a 0-based offset of a buffer
U16At(b, off) == b[off + 1] + 256 * b[off + 2]
U32At(b, off) ==
  b[off + 1] + 256 * b[off + 2] + 65536 * b[off + 3] + 16777216 * b[off + 4]

\* ctypes.sizeof of a structure: the fields, padded to the alignment
RoundUp(n, a) == ((n + a - 1) \div a) * a

SizeofCUint == 4
SizeofHidrawReportDescriptor == RoundUp(SizeofCUint + HID_MAX_DESCRIPTOR_SIZE, 4)
SizeofHidrawDevinfo == RoundUp(4 + 2 + 2, 4)

(* ------------------- the ioctl request builder (4.1) ------------------ *)

\* Direction flags of the generic ioctl numbering: Write = 1, Read = 2.
DirRead == 2

\* Width of the size field of a request code
SizeBits == 14

\* encode(direction, type_char, number, size): number in bits 0..7, type in
\* bits 8..15, size in bits 16..29, direction in bits 30..31. The code is
\* kept as <<bits 16..31, bits 0..15>>.
Encode(dir, ty, nr, size) ==
  IF size >= 2 ^ SizeBits
    THEN [status |-> "EncodingError", hi |-> 0, lo |-> 0]
    ELSE [status |-> "ok", hi |-> dir * (2 ^ SizeBits) + size, lo |-> ty * 256 + nr]

\* ioctl.IOCTL.IOR(ty, nr, size)
IOR(ty, nr, size) == [dir |-> DirRead, ty |-> ty, nr |-> nr, size |-> size,
                      code |-> Encode(DirRead, ty, nr, size)]

(* ------------------------------ UTF-8 --------------------------------- *)

IsCont(o) == o >= 128 /\ o <= 191

\* Octets a sequence that starts with o takes; 0 when o starts none
Utf8Len(o) ==
  IF o < 128 THEN 1
  ELSE IF o >= 194 /\ o <= 223 THEN 2
  ELSE IF o >= 224 /\ o <= 239 THEN 3
  ELSE IF o >= 240 /\ o <= 244 THEN 4
  ELSE 0

\* The second octet of a sequence has a narrower range after some leads
\* (no overlong forms, no surrogates, nothing above U+10FFFF).
SecondOk(lead, o) ==
  CASE lead = 224 -> o >= 160 /\ o <= 191
    [] lead = 237 -> o >= 128 /\ o <= 159
    [] lead = 240 -> o >= 144 /\ o <= 191
    [] lead = 244 -> o >= 128 /\ o <= 143
    [] OTHER -> IsCont(o)

\* A well-formed sequence starts at index i of b
StartsAt(b, i) ==
  LET n == Utf8Len(b[i]) IN
    /\ n > 0
    /\ i + n - 1 <= Len(b)
    /\ \A j \in (i + 1)..(i + n - 1) : IsCont(b[j])
    /\ n > 1 => SecondOk(b[i], b[i + 1])

\* The continuation octet at index i belongs to a sequence that starts
\* at most three octets before it
CoveredAt(b, i) ==
  \E k \in 1..3 :
    /\ i - k >= 1
    /\ ~IsCont(b[i - k])
    /\ \A j \in (i - k + 1)..i : IsCont(b[j])
    /\ Utf8Len(b[i - k]) > k

Utf8Valid(b) ==
  \A i \in 1..Len(b) : IF IsCont(b[i]) THEN CoveredAt(b, i) ELSE StartsAt(b, i)

CodePointAt(b, i) ==
  LET n == Utf8Len(b[i]) IN
    CASE n = 1 -> b[i]
      [] n = 2 -> (b[i] - 192) * 64 + (b[i + 1] - 128)
      [] n = 3 -> (b[i] - 224) * 4096 + (b[i + 1] - 128) * 64 + (b[i + 2] - 128)
      [] OTHER -> (b[i] - 240) * 262144 + (b[i + 1] - 128) * 4096
                  + (b[i + 2] - 128) * 64 + (b[i + 3] - 128)

IsCodePoint(x) == x >= 0

\* bytes.decode('utf-8'): the code points, or UnicodeDecodeError
Utf8Decode(b) ==
  IF ~Utf8Valid(b)
    THEN [status |-> "DecodingError", text |-> <<>>]
    ELSE [status |-> "ok",
          text |-> SelectSeq([i \in 1..Len(b) |->
                                IF IsCont(b[i]) THEN -1 ELSE CodePointAt(b, i)],
                             IsCodePoint)]

\* str.strip('\x00'): drops the NULs at both ends, keeps what is between
StripNul(t) ==
  LET keep == {i \in 1..Len(t) : t[i] # 0} IN
    IF keep = {} THEN <<>>
    ELSE LET first == CHOOSE i \in keep : \A j \in keep : i <= j
             last == CHOOSE i \in keep : \A j \in keep : j <= i
         IN SubSeq(t, first, last)

(* ------------------------ decoding (hidraw.py) ------------------------ *)

\* ctypes.c_uint.from_buffer(buf).value
DecodeCUint(b) == U32At(b, 0)

\* HidrawReportDescriptor.from_buffer(buf): the two fields
RdSize(b) == U32At(b, 0)
RdValue(b) == SubSeq(b, SizeofCUint + 1, SizeofCUint + HID_MAX_DESCRIPTOR_SIZE)

\* list(ret.value)[:ret.size] without the slice
DecodeReportDescriptor_whole(b) == RdValue(b)

\* list(ret.value)[:ret.size] with a slice that is one octet long
DecodeReportDescriptor_past(b) ==
  SubSeq(RdValue(b), 1, Min(RdSize(b) + 1, HID_MAX_DESCRIPTOR_SIZE))

\* list(ret.value)[:ret.size]; a Python slice stops at the end of the list
DecodeReportDescriptor(b) ==
  SubSeq(RdValue(b), 1, Min(RdSize(b), Len(RdValue(b))))

\* the device-info triple with vendor and product read from each other's place
DecodeDevinfo_swapped(b) == <<U32At(b, 0), U16At(b, 6), U16At(b, 4)>>

\* HidrawDevinfo.from_buffer(buf): (bustype, vendor, product)
DecodeDevinfo(b) == <<U32At(b, 0), U16At(b, 4), U16At(b, 6)>>

\* buf.decode('utf-8').strip('\x00')
DecodeName(b) ==
  LET d == Utf8Decode(b) IN
    IF d.status = "ok" THEN [status |-> "ok", text |-> StripNul(d.text)] ELSE d

\* array.array('B', size.to_bytes(4, 'little') + sz * b'\x00'): a buffer
\* with room for the advertised descriptor only
AllocReportDescriptorBuf_short(sz) == ToBytesLE(sz, 4) \o Zeros(sz)

\* array.array('B', size.to_bytes(4, 'little') + HID_MAX_DESCRIPTOR_SIZE * b'\x00')
AllocReportDescriptorBuf(sz) == ToBytesLE(sz, 4) \o Zeros(HID_MAX_DESCRIPTOR_SIZE)

(* --------------------- the kernel and the device ---------------------- *)

\* The descriptor sizes a device advertises in the model
RSizes == {0, 1, HID_MAX_DESCRIPTOR_SIZE - 1, HID_MAX_DESCRIPTOR_SIZE}

\* (bustype, vendor, product) of the devices of the model
Infos == << <<3, 1133, 50475>>, <<2147483647, 256, 65535>> >>

InfoOf(seed) == Infos[((seed - 1) % Len(Infos)) + 1]

Seeds == {1, 2}

Devices == [rsize : RSizes, seed : Seeds]

\* The report descriptor of device d: rsize octets, none of them zero
Rdesc(d) == [i \in 1..d.rsize |-> ((i * d.seed) % 255) + 1]

\* A buffer of HID_NAME_SIZE octets that starts with p and is zero after it
ZeroPadded(p) == [i \in 1..HID_NAME_SIZE |-> IF i <= Len(p) THEN p[i] ELSE 0]

\* The buffers a string query may get back: every buffer of NULs and 'A's
\* (a terminated string, octets after the terminator, a leading NUL, no NUL
\* at all), a string with the two-octet character U+00E9, and two buffers
\* that are not UTF-8
KernelStrings ==
  [1..HID_NAME_SIZE -> {0, 65}]
  \cup {ZeroPadded(<<65, 195, 169>>), ZeroPadded(<<195, 169, 0, 66>>),
        ZeroPadded(<<195>>), ZeroPadded(<<65, 169>>)}

\* What the size field of the descriptor structure may hold after the fetch:
\* the bound the caller put there, the size of the descriptor, or a size
\* above the capacity of the value array
KernelSizeOut(d, len) == {len, d.rsize, HID_MAX_DESCRIPTOR_SIZE + 1, 5000}

\* The buffers the kernel may hand back for request number nr on device d,
\* given the buffer arg that was passed in
KernelWrites(d, nr, arg) ==
  CASE nr = HIDIOCGRDESCSIZE -> {ToBytesLE(d.rsize, 4)}
    [] nr = HIDIOCGRDESC ->
         LET len == U32At(arg, 0)
             n == Min(d.rsize, len)
             rd == Rdesc(d)
         IN {ToBytesLE(out, 4) \o
               [i \in 1..(Len(arg) - 4) |-> IF i <= n THEN rd[i] ELSE arg[4 + i]]
             : out \in KernelSizeOut(d, len)}
    [] nr = HIDIOCGRAWINFO ->
         LET t == InfoOf(d.seed)
         IN {ToBytesLE(t[1], 4) \o SubSeq(ToBytesLE(t[2], 4), 1, 2)
               \o SubSeq(ToBytesLE(t[3], 4), 1, 2)}
    [] OTHER -> KernelStrings

Errnos == {"ENOTTY", "EINVAL"}

\* perform(fd, buf): a closed file object refuses before any system call;
\* otherwise one ioctl is issued, and it fails with an errno or hands back
\* the buffer the kernel wrote.
Perform(h, d, req, arg) ==
  IF req.code.status # "ok"
    THEN {[status |-> "EncodingError", errno |-> "0", buf |-> <<>>, calls |-> <<>>]}
  ELSE IF h.fd # "open"
    THEN {[status |-> "ClosedHandleError", errno |-> "0", buf |-> <<>>, calls |-> <<>>]}
  ELSE {[status |-> "IoctlError", errno |-> e, buf |-> <<>>,
         calls |-> <<[req |-> req, arg |-> arg, errno |-> e]>>] : e \in Errnos}
       \cup
       {[status |-> "ok", errno |-> "0", buf |-> b,
         calls |-> <<[req |-> req, arg |-> arg, errno |-> "0"]>>]
        : b \in KernelWrites(d, req.nr, arg)}

(* ------------------------------- state -------------------------------- *)

VARIABLES
  handle,    \* [path, fd]: self._path and the state of the file self._fd
  life,      \* "unborn", "live", "failed" (the constructor raised), "dead"
  dev,       \* the device behind the node
  pc,        \* "idle", or "fetch" inside report_descriptor
  sz,        \* report_descriptor: what report_descriptor_size returned
  op,        \* the operation that ran last
  status,    \* "ok", "pending" or the error it raised
  errno,     \* the errno of the IoctlError, "0" otherwise
  ret,       \* the value it returned, as a sequence
  buf,       \* the buffer it decoded (or is about to pass to the fetch)
  calls,     \* the ioctls it issued, in order
  lastSize,  \* <<the report_descriptor_size result, how many calls in a row
             \* (1, or 2 for more) returned it>> since the device last changed
  lastInfo   \* the same for info

vars == <<handle, life, dev, pc, sz, op, status, errno, ret, buf, calls,
          lastSize, lastInfo>>

Paths == {"/dev/hidraw0"}

Init ==
  /\ handle = [path |-> "", fd |-> "none"]
  /\ life = "unborn"
  /\ dev \in Devices
  /\ pc = "idle"
  /\ sz = 0
  /\ op = "none"
  /\ status = "ok"
  /\ errno = "0"
  /\ ret = <<>>
  /\ buf = <<>>
  /\ calls = <<>>
  /\ lastSize = <<>>
  /\ lastInfo = <<>>

\* What a successful read r leaves in lastSize or lastInfo
Remember(last, r) == <<r, IF last # <<>> /\ last[1] = r THEN 2 ELSE 1>>

\* The outcome of an operation that issued no ioctl and returned nothing
Plain(name, st) ==
  /\ op' = name
  /\ status' = st
  /\ errno' = "0"
  /\ ret' = <<>>
  /\ buf' = <<>>
  /\ calls' = <<>>

(* --------------------------- the handle ------------------------------- *)

\* Hidraw.__init__: open(path, 'rb+') may fail; fcntl(F_SETFL) may fail
\* after the file was opened and assigned to self._fd.
Construct ==
  /\ life = "unborn"
  /\ \E p \in Paths, outcome \in {"ok", "OpenError", "FcntlError"} :
       /\ handle' = [path |-> p, fd |-> IF outcome = "OpenError" THEN "none" ELSE "open"]
       /\ life' = IF outcome = "ok" THEN "live" ELSE "failed"
       /\ Plain("__init__", outcome)
  /\ UNCHANGED <<dev, pc, sz, lastSize, lastInfo>>

\* The caller closes the file the fd property hands out
Close ==
  /\ life = "live" /\ pc = "idle" /\ handle.fd = "open"
  /\ handle' = [handle EXCEPT !.fd = "closed"]
  /\ Plain("close", "ok")
  /\ UNCHANGED <<life, dev, pc, sz, lastSize, lastInfo>>

\* The caller lets go of the handle
Drop ==
  /\ life = "live" /\ pc = "idle"
  /\ life' = "dead"
  /\ Plain("drop", "ok")
  /\ UNCHANGED <<handle, dev, pc, sz, lastSize, lastInfo>>

\* The runtime finalizes the file object of a handle nobody holds
Finalize ==
  /\ life \in {"failed", "dead"} /\ handle.fd = "open"
  /\ handle' = [handle EXCEPT !.fd = "closed"]
  /\ UNCHANGED <<life, dev, pc, sz, op, status, errno, ret, buf, calls,
                 lastSize, lastInfo>>

\* The device behind the node changes (re-enumeration, firmware mode switch)
DeviceChange ==
  /\ \E d \in Devices : d # dev /\ dev' = d
  /\ lastSize' = <<>>
  /\ lastInfo' = <<>>
  /\ UNCHANGED <<handle, life, pc, sz, op, status, errno, ret, buf, calls>>

\* a query that closes the file it used
HandleAfterQuery_closed(h) == [h EXCEPT !.fd = IF @ = "open" THEN "closed" ELSE @]

\* a query that reopens a closed file
HandleAfterQuery_reopened(h) == [h EXCEPT !.fd = IF @ = "closed" THEN "open" ELSE @]

\* No query assigns self._path or self._fd, or closes the file
HandleAfterQuery(h) == h

(* ----------------------------- the queries ---------------------------- *)

CanQuery == life = "live" /\ pc = "idle"

\* The outcome of a query that ran one ioctl, o, and decoded it to value v
OneCall(name, o, st, v) ==
  /\ op' = name
  /\ status' = st
  /\ errno' = o.errno
  /\ ret' = v
  /\ buf' = o.buf
  /\ calls' = o.calls

SizeRequest == IOR(TypeH, HIDIOCGRDESCSIZE, SizeofCUint)

\* Hidraw.report_descriptor_size
ReportDescriptorSize ==
  /\ CanQuery
  /\ \E o \in Perform(handle, dev, SizeRequest, Zeros(SizeRequest.size)) :
       /\ OneCall("report_descriptor_size", o, o.status,
                  IF o.status = "ok" THEN <<DecodeCUint(o.buf)>> ELSE <<>>)
       /\ lastSize' = IF o.status = "ok"
                         THEN Remember(lastSize, <<DecodeCUint(o.buf)>>) ELSE lastSize
  /\ handle' = HandleAfterQuery(handle)
  /\ UNCHANGED <<life, dev, pc, sz, lastInfo>>

\* report_descriptor goes on with a size of 0 when the size query failed
AfterSizeQuery_swallowed(o) ==
  [proceed |-> TRUE, sz |-> IF o.status = "ok" THEN DecodeCUint(o.buf) ELSE 0]

\* report_descriptor after self.report_descriptor_size: an exception leaves
\* the method, a value goes into the buffer
AfterSizeQuery(o) ==
  IF o.status = "ok"
    THEN [proceed |-> TRUE, sz |-> DecodeCUint(o.buf)]
    ELSE [proceed |-> FALSE, sz |-> 0]

FetchRequest == IOR(TypeH, HIDIOCGRDESC, SizeofHidrawReportDescriptor)

\* Hidraw.report_descriptor up to the second ioctl: the size query and the
\* allocation of the buffer
ReportDescriptorBegin ==
  /\ CanQuery
  /\ \E o \in Perform(handle, dev, SizeRequest, Zeros(SizeRequest.size)) :
       LET a == AfterSizeQuery(o) IN
         /\ op' = "report_descriptor"
         /\ errno' = o.errno
         /\ ret' = <<>>
         /\ calls' = o.calls
         /\ lastSize' = IF o.status = "ok"
                         THEN Remember(lastSize, <<DecodeCUint(o.buf)>>) ELSE lastSize
         /\ IF a.proceed
              THEN /\ pc' = "fetch"
                   /\ sz' = a.sz
                   /\ status' = "pending"
                   /\ buf' = AllocReportDescriptorBuf(a.sz)
              ELSE /\ pc' = "idle"
                   /\ sz' = 0
                   /\ status' = o.status
                   /\ buf' = <<>>
  /\ handle' = HandleAfterQuery(handle)
  /\ UNCHANGED <<life, dev, lastInfo>>

\* Hidraw.report_descriptor from the second ioctl on: the fetch into the
\* buffer and the decoding of it
ReportDescriptorFetch ==
  /\ life = "live" /\ pc = "fetch"
  /\ \E o \in Perform(handle, dev, FetchRequest, buf) :
       /\ status' = o.status
       /\ errno' = o.errno
       /\ calls' = calls \o o.calls
       /\ buf' = o.buf
       /\ ret' = IF o.status = "ok" THEN DecodeReportDescriptor(o.buf) ELSE <<>>
  /\ pc' = "idle"
  /\ handle' = HandleAfterQuery(handle)
  /\ UNCHANGED <<life, dev, sz, op, lastSize, lastInfo>>

InfoRequest == IOR(TypeH, HIDIOCGRAWINFO, SizeofHidrawDevinfo)

\* Hidraw.info
Info ==
  /\ CanQuery
  /\ \E o \in Perform(handle, dev, InfoRequest, Zeros(InfoRequest.size)) :
       /\ OneCall("info", o, o.status,
                  IF o.status = "ok" THEN DecodeDevinfo(o.buf) ELSE <<>>)
       /\ lastInfo' = IF o.status = "ok"
                         THEN Remember(lastInfo, DecodeDevinfo(o.buf)) ELSE lastInfo
  /\ handle' = HandleAfterQuery(handle)
  /\ UNCHANGED <<life, dev, pc, sz, lastSize>>

NameRequest == IOR(TypeH, HIDIOCGRAWNAME, HID_NAME_SIZE)
PhysRequest == IOR(TypeH, HIDIOCGRAWPHYS, HID_NAME_SIZE)
UniqRequest == IOR(TypeH, HIDIOCGRAWUNIQ, HID_NAME_SIZE)

\* name, phys and uniq: one ioctl of HID_NAME_SIZE octets, decoded as text
StringQuery(name, req) ==
  /\ CanQuery
  /\ \E o \in Perform(handle, dev, req, Zeros(req.size)) :
       IF o.status = "ok"
         THEN LET t == DecodeName(o.buf) IN OneCall(name, o, t.status, t.text)
         ELSE OneCall(name, o, o.status, <<>>)
  /\ handle' = HandleAfterQuery(handle)
  /\ UNCHANGED <<life, dev, pc, sz, lastSize, lastInfo>>

\* Hidraw.name
Name == StringQuery("name", NameRequest)

\* Hidraw.phys
Phys == StringQuery("phys", PhysRequest)

\* Hidraw.uniq
Uniq == StringQuery("uniq", UniqRequest)

Next ==
  \/ Construct
  \/ Close
  \/ Drop
  \/ Finalize
  \/ DeviceChange
  \/ ReportDescriptorSize
  \/ ReportDescriptorBegin
  \/ ReportDescriptorFetch
  \/ Info
  \/ Name
  \/ Phys
  \/ Uniq

Spec == Init /\ [][Next]_vars

(* ------------------------------ claims -------------------------------- *)

Queries == {"report_descriptor_size", "report_descriptor", "info",
            "name", "phys", "uniq"}

\* report_descriptor has returned a value
FetchDone == op = "report_descriptor" /\ pc = "idle" /\ status = "ok"

\* C1: when the size field of the fetched structure is the size s the device
\* advertised (0 <= s <= HID_MAX_DESCRIPTOR_SIZE), report_descriptor returns
\* exactly s octets, the first s octets of the value array the kernel wrote,
\* whatever follows them in the buffer; for s = 0 it returns the empty list.
C1_ExactlySizeOctets ==
  (FetchDone /\ RdSize(buf) = sz /\ sz <= HID_MAX_DESCRIPTOR_SIZE) =>
    /\ Len(ret) = sz
    /\ \A i \in 1..sz : ret[i] = buf[SizeofCUint + i]
    /\ (sz = 0 => ret = <<>>)

C1_Witness ==
  /\ FetchDone
  /\ RdSize(buf) = sz
  /\ sz = HID_MAX_DESCRIPTOR_SIZE - 1
  /\ Len(ret) = sz
  /\ Len(buf) = SizeofCUint + HID_MAX_DESCRIPTOR_SIZE

\* The octets of b before its first NUL (all of b when it has none)
UpToFirstNul(b) ==
  LET nuls == {i \in 1..Len(b) : b[i] = 0} IN
    IF nuls = {} THEN b
    ELSE SubSeq(b, 1, (CHOOSE i \in nuls : \A j \in nuls : i <= j) - 1)

\* C2: the text name, phys and uniq return holds no NUL and is exactly the
\* content of the buffer that precedes its first NUL.
C2_TrimsAtFirstNul ==
  (op \in {"name", "phys", "uniq"} /\ status = "ok") =>
    /\ \A i \in 1..Len(ret) : ret[i] # 0
    /\ ret = Utf8Decode(UpToFirstNul(buf)).text

C4_IoctlErrorPropagates ==
  /\ \A i \in 1..Len(calls) :
       calls[i].errno # "0" =>
         /\ i = Len(calls)
         /\ pc = "idle"
         /\ status = "IoctlError"
         /\ errno = calls[i].errno
         /\ ret = <<>>
  /\ status = "IoctlError" =>
       (calls # <<>> /\ calls[Len(calls)].errno # "0")
  /\ (op = "report_descriptor" /\ calls # <<>> /\ calls[1].errno # "0") =>
       (Len(calls) = 1 /\ calls[1].req.nr = HIDIOCGRDESCSIZE)

C4_Witness ==
  /\ op = "report_descriptor"
  /\ status = "IoctlError"
  /\ errno = "ENOTTY"
  /\ Len(calls) = 1
  /\ calls[1].req.nr = HIDIOCGRDESCSIZE
  /\ calls[1].errno = "ENOTTY"

\* C5: once the constructor has raised or the handle is gone, the file the
\* handle opened is not open.
C5_FdClosedOnEveryExit ==
  life \in {"failed", "dead"} => handle.fd # "open"

\* C6: info returns the triple held at offsets 0..3, 4..5 and 6..7 of the
\* 8-octet structure, which is the triple of the device, within the widths
\* of its fields, and the same triple as the call before it when the device
\* has not changed.
C6_InfoTriple ==
  /\ []((op = "info" /\ status = "ok") =>
          /\ Len(buf) = 8
          /\ ret = <<buf[1] + 256 * buf[2] + 65536 * buf[3] + 16777216 * buf[4],
                     buf[5] + 256 * buf[6],
                     buf[7] + 256 * buf[8]>>
          /\ ret[1] >= 0 /\ ret[1] \div 65536 < 65536
          /\ ret[2] >= 0 /\ ret[2] < 65536
          /\ ret[3] >= 0 /\ ret[3] < 65536)
  /\ [][(op' = "info" /\ status' = "ok" /\ dev' = dev) =>
          /\ ret' = InfoOf(dev.seed)
          /\ lastInfo # <<>> => ret' = lastInfo[1]]_vars

C6_Witness ==
  /\ op = "info"
  /\ status = "ok"
  /\ ret = <<3, 1133, 50475>>
  /\ lastInfo = <<ret, 2>>

\* The requests of the six queries, as the handle builds them
CommandTable ==
  [report_descriptor_size |-> SizeRequest,
   report_descriptor |-> FetchRequest,
   info |-> InfoRequest,
   name |-> NameRequest,
   phys |-> PhysRequest,
   uniq |-> UniqRequest]

\* The six commands with the sizes hidraw.py declares for them
DeclaredCommands ==
  [report_descriptor_size |-> [nr |-> HIDIOCGRDESCSIZE, size |-> 4],
   report_descriptor |-> [nr |-> HIDIOCGRDESC, size |-> 4100],
   info |-> [nr |-> HIDIOCGRAWINFO, size |-> 8],
   name |-> [nr |-> HIDIOCGRAWNAME, size |-> 1024],
   phys |-> [nr |-> HIDIOCGRAWPHYS, size |-> 1024],
   uniq |-> [nr |-> HIDIOCGRAWUNIQ, size |-> 1024]]

\* The values each input of encode takes in the checks of C7
EncodeDirs == 0..3
EncodeTypes == {TypeH, TypeH + 1}
EncodeNumbers == {DeclaredCommands[q].nr : q \in Queries} \cup {6, 7}
EncodeSizes == {DeclaredCommands[q].size : q \in Queries}
                 \cup {CommandTable[q].size : q \in Queries}

\* The command the i-th ioctl of the last operation is for: report_descriptor
\* asks for the size first
CallCommand(i) ==
  IF op = "report_descriptor" /\ i = 1 THEN "report_descriptor_size" ELSE op

\* No two of the six queries share a request code, with the sizes the source
\* declares and with the sizes of the model, and each size fits the size field
TableCodesDistinct ==
  /\ \A a, b \in Queries :
       a # b =>
         /\ CommandTable[a].code # CommandTable[b].code
         /\ Encode(DirRead, TypeH, DeclaredCommands[a].nr, DeclaredCommands[a].size)
              # Encode(DirRead, TypeH, DeclaredCommands[b].nr, DeclaredCommands[b].size)
  /\ \A q \in Queries :
       Encode(DirRead, TypeH, DeclaredCommands[q].nr, DeclaredCommands[q].size).status = "ok"

EncodeInputs == EncodeDirs \X EncodeTypes \X EncodeNumbers \X EncodeSizes

\* Two tuples that differ in an input have different codes
EncodeInjective ==
  \A x, y \in EncodeInputs :
    x # y => Encode(x[1], x[2], x[3], x[4]) # Encode(y[1], y[2], y[3], y[4])

\* C7: no two of the six queries share a request code; a tuple that differs
\* from another in any one input has another code; and every ioctl a query
\* issues carries the code of its own command and of no other.
C7_RequestCodesDistinct ==
  /\ TableCodesDistinct
  /\ EncodeInjective
  /\ \A i \in 1..Len(calls), q \in Queries :
       calls[i].req.code = CommandTable[q].code <=> q = CallCommand(i)

C7_Witness ==
  /\ op = "uniq"
  /\ status = "ok"
  /\ Len(calls) = 1
  /\ calls[1].req.code = Encode(DirRead, TypeH, HIDIOCGRAWUNIQ, HID_NAME_SIZE)
  /\ calls[1].req.code # PhysRequest.code

\* The report_descriptor_size call of this step is not a mere change of the
\* device behind an unchanged result
SizeCallStep ==
  /\ op' = "report_descriptor_size"
  /\ ~(UNCHANGED <<op, status, errno, ret, buf, calls>> /\ dev' # dev)

\* C8: a report_descriptor_size call leaves the handle (path, file, life)
\* and the device as they were, and returns what the call before it returned
\* when the device has not changed in between.
C8_SizeIdempotent ==
  [][SizeCallStep =>
       /\ handle' = handle
       /\ life' = life
       /\ dev' = dev
       /\ (status' = "ok" /\ lastSize # <<>>) => ret' = lastSize[1]]_vars

C8_Witness ==
  /\ op = "report_descriptor_size"
  /\ status = "ok"
  /\ handle.fd = "open"
  /\ lastSize = <<ret, 2>>
  /\ ret = <<HID_MAX_DESCRIPTOR_SIZE - 1>>

\* C9: report_descriptor that returned a value issued two ioctls, the size
\* query (number 1, 4 octets) and then the fetch (number 2, the size of the
\* whole structure); the buffer of the fetch, built for this call after the
\* size query, is as long as the declared size and holds the size the first
\* ioctl returned followed by zeros only.
C9_TwoIoctlsFreshBuffer ==
  /\ (op = "report_descriptor" /\ pc = "fetch") =>
       /\ Len(calls) = 1
       /\ calls[1].req.nr = HIDIOCGRDESCSIZE
       /\ calls[1].req.size = 4
       /\ calls[1].errno = "0"
       /\ Len(buf) = FetchRequest.size
       /\ Len(buf) = 4 + HID_MAX_DESCRIPTOR_SIZE
       /\ SubSeq(buf, 1, 4) = ToBytesLE(sz, 4)
       /\ \A i \in 5..Len(buf) : buf[i] = 0
  /\ FetchDone =>
       /\ Len(calls) = 2
       /\ calls[1].req.nr = HIDIOCGRDESCSIZE /\ calls[1].req.size = 4
       /\ calls[2].req.nr = HIDIOCGRDESC
       /\ calls[2].req.size = 4 + HID_MAX_DESCRIPTOR_SIZE
       /\ calls[2].req.dir = DirRead /\ calls[1].req.dir = DirRead
       /\ Len(calls[2].arg) = calls[2].req.size
       /\ U32At(calls[2].arg, 0) = sz
       /\ \A i \in 5..Len(calls[2].arg) : calls[2].arg[i] = 0

C9_Witness ==
  /\ FetchDone
  /\ Len(calls) = 2
  /\ sz = 1
  /\ calls[2].arg = <<1, 0, 0, 0>> \o Zeros(HID_MAX_DESCRIPTOR_SIZE)
  /\ ret # <<>>

\* C10: report_descriptor returns min(n, HID_MAX_DESCRIPTOR_SIZE) octets, the
\* first ones of the value array, where n is the size field of the buffer
\* after the fetch, whatever the size query returned before.
C10_LengthFromFetchedSize ==
  FetchDone =>
    /\ Len(ret) = Min(RdSize(buf), HID_MAX_DESCRIPTOR_SIZE)
    /\ Len(ret) <= HID_MAX_DESCRIPTOR_SIZE
    /\ \A i \in 1..Len(ret) : ret[i] = buf[4 + i]

C10_Witness ==
  /\ FetchDone
  /\ RdSize(buf) # sz
  /\ RdSize(buf) > HID_MAX_DESCRIPTOR_SIZE
  /\ Len(ret) = HID_MAX_DESCRIPTOR_SIZE

\* C10, second case: the device changed between the two ioctls
C10_WitnessChanged ==
  /\ FetchDone
  /\ RdSize(buf) = dev.rsize
  /\ RdSize(buf) < sz
  /\ Len(ret) = dev.rsize

====
